---- MODULE Spec2Model ----
(***************************************************************************)
(* ShadowClone AI portfolio backend (src/server.py): the /ask, /health and *)
(* /ping routes of a FastAPI application served by one asyncio event loop, *)
(* the slowapi limiter "10/minute;60/hour" keyed by remote address, the    *)
(* Azure OpenAI assistant client and the PostHog capture of failed runs.   *)
(***************************************************************************)
EXTENDS Integers, Sequences, FiniteSets, TLC

\* ------------------------------------------------------------ bounds
\* Request slots: connections the server holds at the same time.
NReq == 2
\* Environment events (requests sent, clock ticks) of the orchestration
\* specification.
MaxEvents == 3
\* Non-blank questions that reach the assistant service.
MaxAsks == 2
\* Status fetches of one run that still answer queued / in_progress.
MaxPolls == 2
\* How far past its amount a window counter is driven.
MaxOver == 2
\* Clock resolution: ticks per minute (a tick is 60 / TicksPerMinute s).
TicksPerMinute == 2
\* Ticks of an hour window the rate-limiting specification follows one by
\* one; the rest of the hour passes in one step.
MaxHourAge == 14

\* ------------------------------------------------- program constants
\* @limiter.limit("10/minute;60/hour")
MinuteMax == 10
HourMax == 60

Slots == 1..NReq
Keys == {"ipA", "ipB"}
Windows == <<"minute", "hour">>
WindowNames == {"minute", "hour"}
Amount(w) == IF w = "minute" THEN MinuteMax ELSE HourMax
Expiry(w) == IF w = "minute" THEN TicksPerMinute ELSE 60 * TicksPerMinute

NonTerminal == {"queued", "in_progress"}
\* completed, the terminal failures, and one status the code does not name.
OtherStatuses == {"completed", "failed", "cancelled", "expired", "requires_action"}
AllStatuses == NonTerminal \cup OtherStatuses

\* Question strings, as sequences of characters.
Questions == {<< >>, <<" ">>, <<" ", "a">>, <<"a", " ">>}
IsSpace(c) == c = " "
\* Empty or only whitespace.
IsBlankText(q) == \A i \in 1..Len(q) : IsSpace(q[i])

VARIABLES
  storage,    \* limiter counters: storage[k][w]
  expires,    \* ticks until the counter of window w of key k expires, 0: no counter
  req,        \* per slot: the request, its handler's locals and its history
  loop,       \* the slot whose coroutine holds the event loop, 0: none
  nThreads,   \* threads the assistant service has created
  msgs,       \* msgs[t]: the messages of thread t, most recent first
  asked,      \* non-blank questions accepted so far
  events,     \* requests sent and clock ticks so far
  winAdmits,  \* winAdmits[k][w]: requests admitted during the live window w
  slide,      \* slide[k][i]: requests admitted i-1 ticks ago (last minute)
  out         \* the request answered by the last step, with its response

vars == <<storage, expires, req, loop, nThreads, msgs, asked, events,
          winAdmits, slide, out>>

\* ------------------------------------------------------------ values
NoResp == [code |-> 0, json |-> FALSE, body |-> [none |-> TRUE]]
RateLimitMessage ==
  <<"Too many requests. Please slow down - ShadowClone AI needs a breather">>
Json(code, body) == [code |-> code, json |-> TRUE, body |-> body]
\* An exception that leaves the handler: the server's plain-text 500.
ServerError == [code |-> 500, json |-> FALSE,
                body |-> [text |-> <<"Internal Server Error">>]]

\* What the limiter saw when it decided on a request.
NoAdm == [decided |-> FALSE, ok |-> FALSE, failed |-> "none",
          slideBefore |-> 0, minuteFresh |-> FALSE, hourBefore |-> 0,
          minuteBefore |-> 0, stBefore |-> << >>, stAfter |-> << >>]

\* pc, kind, key: the request; question, thread_id, status: the locals of
\* ask; given, supplied: the thread_id of the body; calls: the assistant
\* client calls made, in order; captures, raised: the analytics captures
\* attempted and whether the last one raised; polls: status fetches made.
IdleReq == [pc |-> "idle", slot |-> 0, kind |-> "none", key |-> "none",
            blank |-> FALSE, question |-> << >>,
            given |-> "omitted", supplied |-> 0, thread_id |-> 0,
            status |-> "none", polls |-> 0, calls |-> << >>,
            captures |-> 0, raised |-> FALSE, adm |-> NoAdm, resp |-> NoResp]
NoOut == IdleReq

\* The JSON bodies a client posts to /ask: question present or missing,
\* thread_id omitted, null, "" or an identifier.
Payloads ==
  [hasQ : {TRUE}, q : Questions, given : {"omitted", "null", "empty"}, id : {0}]
  \cup [hasQ : {FALSE}, q : {<< >>}, given : {"omitted"}, id : {0}]
  \cup [hasQ : {TRUE}, q : Questions, given : {"id"}, id : 1..MaxAsks]
\* Whether the body carries no question, or a blank one.
IsBlankPayload(d) == ~d.hasQ \/ IsBlankText(d.q)
BlankPayloads == {d \in Payloads : IsBlankPayload(d)}

\* ----------------------------------------------------------- helpers
RECURSIVE LStrip(_)
LStrip(s) == IF s # << >> /\ IsSpace(Head(s)) THEN LStrip(Tail(s)) ELSE s
RECURSIVE RStrip(_)
RStrip(s) ==
  IF s # << >> /\ IsSpace(s[Len(s)]) THEN RStrip(SubSeq(s, 1, Len(s) - 1)) ELSE s
\* str.strip()
Strip(s) == RStrip(LStrip(s))

\* Mutant: the question is not stripped.
QuestionUnstripped(data) == IF data.hasQ THEN data.q ELSE << >>
\* data.get("question", "").strip()
QuestionOf(data) == Strip(IF data.hasQ THEN data.q ELSE << >>)
\* Mutant: the thread_id of the body is ignored.
ThreadIdIgnored(data) == 0
\* Mutant: only a missing or null thread_id asks for a new thread; the
\* empty string is passed on as an identifier the service does not know.
ThreadIdEmptyKept(data) ==
  IF data.given = "id" THEN data.id
  ELSE IF data.given = "empty" THEN MaxAsks + 1 ELSE 0
\* data.get("thread_id"): 0 stands for the falsy values None and "".
ThreadIdOf(data) == IF data.given = "id" THEN data.id ELSE 0

RECURSIVE SumSeq(_)
SumSeq(s) == IF s = << >> THEN 0 ELSE Head(s) + SumSeq(Tail(s))

RECURSIVE Unary(_)
Unary(n) == IF n = 0 THEN << >> ELSE <<"+">> \o Unary(n - 1)
\* The text of the assistant's reply to the n-th message of a thread.
ReplyText(n) == <<"reply">> \o Unary(n)
UserMessage(q) == [role |-> "user", text |-> q]
AssistantMessage(thread) ==
  [role |-> "assistant", text |-> ReplyText(Len(thread))]

\* ------------------------------------------------------- rate limiter
\* Mutant: one counter per window for all clients.
IncrShared(st, ex, k, w) ==
  LET old == IF ex["ipA"][w] > 0 THEN st["ipA"][w] ELSE 0
      new == old + 1
  IN [st |-> [st EXCEPT !["ipA"][w] = new],
      ex |-> IF new = 1 THEN [ex EXCEPT !["ipA"][w] = Expiry(w)] ELSE ex,
      val |-> new]

\* The in-memory counter of one window: incremented by every hit, created
\* with the window's expiry when there is none.
Incr(st, ex, k, w) ==
  LET old == IF ex[k][w] > 0 THEN st[k][w] ELSE 0
      new == old + 1
  IN [st |-> [st EXCEPT ![k][w] = new],
      ex |-> IF new = 1 THEN [ex EXCEPT ![k][w] = Expiry(w)] ELSE ex,
      val |-> new]

\* Mutants: the comparison of the hit is off by one, either way.
HitOkOneMore(val, w) == val <= Amount(w) + 1
HitOkOneLess(val, w) == val < Amount(w)
\* Fixed-window strategy: the hit succeeds while the counter is within the amount.
HitOk(val, w) == val <= Amount(w)

\* Mutant: both limits are hit, only the first can deny.
EvaluateFirstDenies(st, ex, k, i) ==
  LET m == Incr(st, ex, k, Windows[1])
      h == Incr(m.st, m.ex, k, Windows[2])
  IN IF m.val <= Amount(Windows[1])
     THEN [st |-> h.st, ex |-> h.ex, failed |-> "none"]
     ELSE [st |-> m.st, ex |-> m.ex, failed |-> Windows[1]]

\* The limits of "10/minute;60/hour" are hit in order; the first that fails
\* stops the evaluation.
RECURSIVE EvaluateLimits(_, _, _, _)
EvaluateLimits(st, ex, k, i) ==
  IF i > Len(Windows)
  THEN [st |-> st, ex |-> ex, failed |-> "none"]
  ELSE LET h == Incr(st, ex, k, Windows[i])
       IN IF HitOk(h.val, Windows[i])
          THEN EvaluateLimits(h.st, h.ex, k, i + 1)
          ELSE [st |-> h.st, ex |-> h.ex, failed |-> Windows[i]]

\* custom_rate_limit_handler
RateLimitResponse == Json(429, [error |-> RateLimitMessage])

\* --------------------------------------------------------------- Init
\* The server with `used` requests of client ipA admitted in this tick.
InitAt(used) ==
  /\ \E u \in {used} :
       /\ storage = [k \in Keys |-> [w \in WindowNames |->
                       IF k = "ipA" THEN u ELSE 0]]
       /\ expires = [k \in Keys |-> [w \in WindowNames |->
                       IF k = "ipA" /\ u > 0 THEN Expiry(w) ELSE 0]]
       /\ winAdmits = storage
       /\ slide = [k \in Keys |-> [i \in 1..TicksPerMinute |->
                       IF k = "ipA" /\ i = 1 THEN u ELSE 0]]
  /\ req = [r \in Slots |-> IdleReq]
  /\ loop = 0
  /\ nThreads = 0
  /\ msgs = [t \in 1..(MaxAsks + 1) |-> << >>]
  /\ asked = 0
  /\ events = 0
  /\ out = NoOut

\* The server has just started, or client ipA has just had MinuteMax
\* requests admitted.
Init == \E used \in {0, MinuteMax} : InitAt(used)

upstreamVars == <<nThreads, msgs, asked>>
limiterVars == <<storage, expires, winAdmits, slide>>

\* ------------------------------------------------------------ actions
\* The handler of slot r returns: the response goes out, the slot is free.
Respond(r, rec, resp) ==
  /\ req' = [req EXCEPT ![r] = IdleReq]
  /\ out' = [rec EXCEPT !.pc = "done", !.slot = r, !.resp = resp]

\* The handler of slot r goes on.
Continue(r, rec) ==
  /\ req' = [req EXCEPT ![r] = rec]
  /\ out' = NoOut

\* A client at address k opens a request of the given kind; blank: the
\* question of its body is missing or blank.
Arrive(r, kind, k, blank) ==
  /\ req[r].pc = "idle"
  /\ kind = "ask" =>
       \A w \in WindowNames : storage[k][w] < Amount(w) + MaxOver
  /\ kind # "ask" => ~blank
  /\ Continue(r, [IdleReq EXCEPT !.pc = "arrived", !.kind = kind, !.key = k,
                                 !.blank = blank])
  /\ UNCHANGED <<loop, upstreamVars, limiterVars>>

\* Mutant: a request with a blank question is not counted.
LimitCheckSkipsBlank(r) ==
  /\ req[r].pc = "arrived" /\ req[r].kind = "ask"
  /\ loop = 0
  /\ LET k == req[r].key
         e == IF req[r].blank
              THEN [st |-> storage, ex |-> expires, failed |-> "none"]
              ELSE EvaluateLimits(storage, expires, k, 1)
         ok == e.failed = "none"
         seen == [decided |-> TRUE, ok |-> ok, failed |-> e.failed,
                  slideBefore |-> SumSeq(slide[k]),
                  minuteFresh |-> expires[k]["minute"] = 0,
                  minuteBefore |-> winAdmits[k]["minute"],
                  hourBefore |-> winAdmits[k]["hour"],
                  stBefore |-> <<storage[k]["minute"], storage[k]["hour"]>>,
                  stAfter |-> <<e.st[k]["minute"], e.st[k]["hour"]>>]
         rec == [req[r] EXCEPT !.adm = seen]
     IN /\ storage' = e.st
        /\ expires' = e.ex
        /\ winAdmits' = IF ok
             THEN [winAdmits EXCEPT ![k] = [w \in WindowNames |-> @[w] + 1]]
             ELSE winAdmits
        /\ slide' = IF ok THEN [slide EXCEPT ![k][1] = @ + 1] ELSE slide
        /\ IF ok
           THEN Continue(r, [rec EXCEPT !.pc = "json"])
           ELSE Respond(r, rec, RateLimitResponse)
  /\ UNCHANGED <<loop, upstreamVars>>

\* @limiter.limit("10/minute;60/hour"): the check that runs before ask.
LimitCheck(r) ==
  /\ req[r].pc = "arrived" /\ req[r].kind = "ask"
  /\ loop = 0
  /\ LET k == req[r].key
         e == EvaluateLimits(storage, expires, k, 1)
         ok == e.failed = "none"
         seen == [decided |-> TRUE, ok |-> ok, failed |-> e.failed,
                  slideBefore |-> SumSeq(slide[k]),
                  minuteFresh |-> expires[k]["minute"] = 0,
                  minuteBefore |-> winAdmits[k]["minute"],
                  hourBefore |-> winAdmits[k]["hour"],
                  stBefore |-> <<storage[k]["minute"], storage[k]["hour"]>>,
                  stAfter |-> <<e.st[k]["minute"], e.st[k]["hour"]>>]
         rec == [req[r] EXCEPT !.adm = seen]
     IN /\ storage' = e.st
        /\ expires' = e.ex
        /\ winAdmits' = IF ok
             THEN [winAdmits EXCEPT ![k] = [w \in WindowNames |-> @[w] + 1]]
             ELSE winAdmits
        /\ slide' = IF ok THEN [slide EXCEPT ![k][1] = @ + 1] ELSE slide
        /\ IF ok
           THEN Continue(r, [rec EXCEPT !.pc = "json"])
           ELSE Respond(r, rec, RateLimitResponse)
  /\ UNCHANGED <<loop, upstreamVars>>

\* ask, lines 93-98: the body is read, the question validated.  From here
\* to its return the coroutine never awaits: it keeps the event loop.
ReadJson(r, data) ==
  /\ req[r].pc = "json"
  /\ loop = 0
  /\ IsBlankPayload(data) = req[r].blank
  /\ LET question == QuestionOf(data)
         rec == [req[r] EXCEPT !.given = data.given, !.supplied = data.id,
                               !.question = question,
                               !.thread_id = ThreadIdOf(data)]
     IN IF question = << >>
        THEN /\ Respond(r, rec, Json(400, [error |-> <<"No question provided.">>]))
             /\ UNCHANGED <<loop, asked>>
        ELSE /\ asked' = asked + 1
             /\ Continue(r, [rec EXCEPT !.pc = "thread"])
             /\ loop' = r
  /\ UNCHANGED <<nThreads, msgs, limiterVars>>

\* Mutant: a call that raised is made again.
RaiseGoesOn(r, call) ==
  /\ Continue(r, [req[r] EXCEPT !.calls = Append(@, call \o <<"raised">>)])
  /\ UNCHANGED loop
\* Mutant: an exception of a call is reported to the analytics service.
RaiseCaptures(r, call) ==
  /\ Respond(r, [req[r] EXCEPT !.calls = Append(@, call \o <<"raised">>),
                               !.captures = @ + 1], ServerError)
  /\ loop' = 0
\* An assistant-client call raised: the exception leaves ask.
Raise(r, call) ==
  /\ Respond(r, [req[r] EXCEPT !.calls = Append(@, call \o <<"raised">>)], ServerError)
  /\ loop' = 0

\* An assistant-client call returned.
Called(r, call, rec) ==
  Continue(r, [rec EXCEPT !.calls = Append(@, call \o <<"ok">>)])

\* lines 102-108: create or reuse the thread.
AcquireThread(r, fail) ==
  /\ req[r].pc = "thread"
  /\ IF req[r].thread_id = 0
     THEN IF fail
          THEN Raise(r, <<"createThread", 0>>) /\ UNCHANGED nThreads
          ELSE /\ nThreads' = nThreads + 1
               /\ Called(r, <<"createThread", nThreads + 1>>,
                    [req[r] EXCEPT !.pc = "append", !.thread_id = nThreads + 1])
               /\ UNCHANGED loop
     ELSE /\ ~fail
          /\ Continue(r, [req[r] EXCEPT !.pc = "append"])
          /\ UNCHANGED <<nThreads, loop>>
  /\ UNCHANGED <<msgs, asked, limiterVars>>

\* lines 110-115: add the user message; the service refuses a thread it
\* does not know.
AppendMessage(r, fail) ==
  /\ req[r].pc = "append"
  /\ LET t == req[r].thread_id
     IN IF fail \/ t > nThreads
        THEN Raise(r, <<"appendMessage", t>>) /\ UNCHANGED msgs
        ELSE /\ msgs' = [msgs EXCEPT ![t] = <<UserMessage(req[r].question)>> \o @]
             /\ Called(r, <<"appendMessage", t>>, [req[r] EXCEPT !.pc = "run"])
             /\ UNCHANGED loop
  /\ UNCHANGED <<nThreads, asked, limiterVars>>

\* The service has the assistant's reply in the thread once the run is
\* completed.
Observe(t, s) ==
  IF s = "completed"
  THEN [msgs EXCEPT ![t] = <<AssistantMessage(@)>> \o @]
  ELSE msgs

\* lines 117-121: create the run.
CreateRun(r, fail, s) ==
  /\ req[r].pc = "run"
  /\ LET t == req[r].thread_id
     IN IF fail
        THEN Raise(r, <<"createRun", t>>) /\ UNCHANGED msgs
        ELSE /\ Called(r, <<"createRun", t>>,
                  [req[r] EXCEPT !.pc = "poll", !.status = s])
             /\ msgs' = Observe(t, s)
             /\ UNCHANGED loop
  /\ UNCHANGED <<nThreads, asked, limiterVars>>

\* The statuses a run seen in status s can show next.
Later(s) == IF s = "queued" THEN AllStatuses ELSE AllStatuses \ {"queued"}

\* Mutant: the loop goes on only while the run is queued.
StillQueued(status) == status = "queued"
\* The loop condition of line 124.
StillRunning(status) == status \in NonTerminal

\* Mutant: the polling loop creates the run again instead of retrieving it.
PollCreates(r, fail, s) ==
  /\ req[r].pc = "poll"
  /\ req[r].status \in NonTerminal
  /\ LET t == req[r].thread_id
     IN IF fail
        THEN Raise(r, <<"createRun", t>>) /\ UNCHANGED msgs
        ELSE /\ s \in Later(req[r].status)
             /\ s \in NonTerminal => req[r].polls < MaxPolls
             /\ Called(r, <<"createRun", t>>,
                  [req[r] EXCEPT !.status = s, !.polls = @ + 1])
             /\ msgs' = Observe(t, s)
             /\ UNCHANGED loop
  /\ UNCHANGED <<nThreads, asked, limiterVars>>

\* lines 124-129: one turn of the polling loop, time.sleep(1) and retrieve.
Poll(r, fail, s) ==
  /\ req[r].pc = "poll"
  /\ StillRunning(req[r].status)
  /\ LET t == req[r].thread_id
     IN IF fail
        THEN Raise(r, <<"getRun", t>>) /\ UNCHANGED msgs
        ELSE /\ s \in Later(req[r].status)
             /\ s \in NonTerminal => req[r].polls < MaxPolls
             /\ Called(r, <<"getRun", t>>,
                  [req[r] EXCEPT !.status = s, !.polls = @ + 1])
             /\ msgs' = Observe(t, s)
             /\ UNCHANGED loop
  /\ UNCHANGED <<nThreads, asked, limiterVars>>

\* Mutant: the oldest message is taken.
AnswerOldest(messages) == messages[Len(messages)].text
\* messages.data[0].content[0].text.value
Answer(messages) == messages[1].text

\* Mutant: a completed run is captured too.
CompletedCaptures(r, fail) ==
  /\ req[r].pc = "poll"
  /\ req[r].status = "completed"
  /\ LET t == req[r].thread_id
     IN IF fail
        THEN Raise(r, <<"listMessages", t>>)
        ELSE /\ Respond(r, [req[r] EXCEPT
                            !.calls = Append(@, <<"listMessages", t, "ok">>),
                            !.captures = @ + 1],
                  Json(200, [answer |-> Answer(msgs[t]), thread_id |-> t]))
             /\ loop' = 0
  /\ UNCHANGED <<nThreads, msgs, asked, limiterVars>>
\* lines 131-136: the run is completed.
Completed(r, fail) ==
  /\ req[r].pc = "poll"
  /\ req[r].status = "completed"
  /\ LET t == req[r].thread_id
     IN IF fail
        THEN Raise(r, <<"listMessages", t>>)
        ELSE /\ Respond(r, [req[r] EXCEPT
                            !.calls = Append(@, <<"listMessages", t, "ok">>)],
                  Json(200, [answer |-> Answer(msgs[t]), thread_id |-> t]))
             /\ loop' = 0
  /\ UNCHANGED <<nThreads, msgs, asked, limiterVars>>

\* "Run failed with status: <status>"
RunFailedText(s) == <<"Run failed with status: ", s>>

\* Mutant: an exception of the capture leaves the handler.
FailedResponseUncaught(s, t, raised) ==
  IF raised THEN ServerError
  ELSE Json(500, [error |-> <<"Run failed with status: ", s>>, thread_id |-> t])
\* The response after the capture was attempted; an exception of the
\* capture is caught and logged.
FailedResponse(s, t, raised) ==
  Json(500, [error |-> RunFailedText(s), thread_id |-> t])

\* Mutant: the capture never returns.
FailedStuck(r, raised) ==
  /\ req[r].pc = "poll"
  /\ ~StillRunning(req[r].status)
  /\ req[r].status # "completed"
  /\ Continue(r, req[r])
  /\ UNCHANGED <<loop, nThreads, msgs, asked, limiterVars>>
\* lines 138-157: any other status.
Failed(r, raised) ==
  /\ req[r].pc = "poll"
  /\ ~StillRunning(req[r].status)
  /\ req[r].status # "completed"
  /\ Respond(r, [req[r] EXCEPT !.captures = @ + 1, !.raised = raised],
       FailedResponse(req[r].status, req[r].thread_id, raised))
  /\ loop' = 0
  /\ UNCHANGED <<nThreads, msgs, asked, limiterVars>>

\* health and ping
SyncBody(kind) ==
  IF kind = "health" THEN [status |-> <<"ok">>] ELSE [message |-> <<"pong">>]

\* Mutant: health and ping are counted by the limiter as /ask is.
HandleSyncLimited(r) ==
  /\ req[r].pc = "arrived" /\ req[r].kind \in {"health", "ping"}
  /\ loop = 0
  /\ LET e == EvaluateLimits(storage, expires, req[r].key, 1)
     IN /\ storage' = e.st
        /\ expires' = e.ex
        /\ Respond(r, req[r], IF e.failed = "none"
                               THEN Json(200, SyncBody(req[r].kind))
                               ELSE RateLimitResponse)
  /\ UNCHANGED <<loop, upstreamVars, winAdmits, slide>>
\* The event loop dispatches the request and sends its response.
HandleSync(r) ==
  /\ req[r].pc = "arrived" /\ req[r].kind \in {"health", "ping"}
  /\ loop = 0
  /\ Respond(r, req[r], Json(200, SyncBody(req[r].kind)))
  /\ UNCHANGED <<loop, upstreamVars, limiterVars>>

\* Time passes by one tick: counters whose expiry is reached are dropped.
Tick ==
  /\ expires' = [k \in Keys |-> [w \in WindowNames |->
                   IF expires[k][w] > 0 THEN expires[k][w] - 1 ELSE 0]]
  /\ storage' = [k \in Keys |-> [w \in WindowNames |->
                   IF expires[k][w] > 1 THEN storage[k][w] ELSE 0]]
  /\ winAdmits' = [k \in Keys |-> [w \in WindowNames |->
                   IF expires[k][w] > 1 THEN winAdmits[k][w] ELSE 0]]
  /\ slide' = [k \in Keys |-> [i \in 1..TicksPerMinute |->
                   IF i = 1 THEN 0 ELSE slide[k][i - 1]]]
  /\ out' = NoOut
  /\ UNCHANGED <<req, loop, upstreamVars>>

\* No request for an hour: every counter expires.
TickHour ==
  /\ storage' = [k \in Keys |-> [w \in WindowNames |-> 0]]
  /\ expires' = [k \in Keys |-> [w \in WindowNames |-> 0]]
  /\ winAdmits' = [k \in Keys |-> [w \in WindowNames |-> 0]]
  /\ slide' = [k \in Keys |-> [i \in 1..TicksPerMinute |-> 0]]
  /\ out' = NoOut
  /\ UNCHANGED <<req, loop, upstreamVars>>

\* ---------------------------------------------------- specifications
Counted == events < MaxEvents /\ events' = events + 1
Bounded == asked' <= MaxAsks /\ UNCHANGED events

\* Every route, every payload, one client address, two connections; the
\* environment sends a bounded number of requests and lets a bounded
\* number of ticks pass.
Next ==
  \/ \E r \in Slots, kind \in {"ask", "health", "ping"}, blank \in BOOLEAN :
       Arrive(r, kind, "ipA", blank) /\ Counted
  \/ \E r \in Slots : LimitCheck(r) /\ Bounded
  \/ \E r \in Slots, data \in Payloads : ReadJson(r, data) /\ Bounded
  \/ \E r \in Slots, fail \in BOOLEAN : AcquireThread(r, fail) /\ Bounded
  \/ \E r \in Slots, fail \in BOOLEAN : AppendMessage(r, fail) /\ Bounded
  \/ \E r \in Slots, fail \in BOOLEAN, s \in AllStatuses :
       CreateRun(r, fail, s) /\ Bounded
  \/ \E r \in Slots, fail \in BOOLEAN, s \in AllStatuses :
       Poll(r, fail, s) /\ Bounded
  \/ \E r \in Slots, fail \in BOOLEAN : Completed(r, fail) /\ Bounded
  \/ \E r \in Slots, raised \in BOOLEAN : Failed(r, raised) /\ Bounded
  \/ \E r \in Slots : HandleSync(r) /\ Bounded
  \/ Tick /\ Counted

Spec == Init /\ [][Next]_vars

\* One step of the request of slot r: the limiter's check, the handler's
\* next statement, or the dispatch of health / ping.
Step(r) ==
  \/ LimitCheck(r) /\ Bounded
  \/ \E data \in Payloads : ReadJson(r, data) /\ Bounded
  \/ \E fail \in BOOLEAN : AcquireThread(r, fail) /\ Bounded
  \/ \E fail \in BOOLEAN : AppendMessage(r, fail) /\ Bounded
  \/ \E fail \in BOOLEAN, s \in AllStatuses : CreateRun(r, fail, s) /\ Bounded
  \/ \E fail \in BOOLEAN, s \in AllStatuses : Poll(r, fail, s) /\ Bounded
  \/ \E fail \in BOOLEAN : Completed(r, fail) /\ Bounded
  \/ \E raised \in BOOLEAN : Failed(r, raised) /\ Bounded
  \/ HandleSync(r) /\ Bounded

\* Non-blank questions sent and not yet read by ask.
Unread ==
  Cardinality({q \in Slots : req[q].kind = "ask" /\ ~req[q].blank
                               /\ req[q].pc \in {"arrived", "json"}})

\* The same server and environment, with at most MaxAsks non-blank
\* questions sent.
NextLive ==
  \/ \E r \in Slots, kind \in {"ask", "health", "ping"}, blank \in BOOLEAN :
       /\ (kind = "ask" /\ ~blank) => asked + Unread < MaxAsks
       /\ Arrive(r, kind, "ipA", blank) /\ Counted
  \/ \E r \in Slots : Step(r)
  \/ Tick /\ Counted

\* The event loop runs every request that is ready; a blocking call of the
\* handler returns or raises; a run leaves queued / in_progress within
\* MaxPolls fetches.
SpecLive == Init /\ [][NextLive]_vars /\ \A r \in Slots : WF_vars(Step(r))

\* get_remote_address: the client behind connection r.
KeyOf(r) == IF r = 1 THEN "ipA" ELSE "ipB"

\* Two clients, each on its own connection, sending at the same time.
NextClients ==
  \/ \E r \in Slots, kind \in {"ask", "health", "ping"}, blank \in BOOLEAN :
       Arrive(r, kind, KeyOf(r), blank) /\ Counted
  \/ \E r \in Slots : Step(r)
  \/ Tick /\ Counted

SpecClients == Init /\ [][NextClients]_vars

\* The hour window of client ipA is younger than MaxHourAge ticks.
Young == expires["ipA"]["hour"] = 0
           \/ expires["ipA"]["hour"] > Expiry("hour") - MaxHourAge

\* Rate limiting: one client sending /ask requests with a blank question
\* without bound, and with a non-blank one once the minute window is used
\* up; a request is handled faster than the clock ticks.
NextLimiter ==
  \/ Arrive(1, "ask", "ipA", TRUE) /\ UNCHANGED events
  \/ /\ winAdmits["ipA"]["minute"] >= MinuteMax
     /\ Arrive(1, "ask", "ipA", FALSE) /\ UNCHANGED events
  \/ LimitCheck(1) /\ UNCHANGED events
  \/ \E data \in {d \in BlankPayloads : d.given = "omitted"} :
       ReadJson(1, data) /\ UNCHANGED events
  \/ req[1].pc = "idle" /\ Young /\ Tick /\ UNCHANGED events
  \/ req[1].pc = "idle" /\ TickHour /\ UNCHANGED events

SpecLimiter == InitAt(0) /\ [][NextLimiter]_vars


\* ------------------------------------------------------------- claims
\* Every request the server holds or has just answered.
Records == {req[r] : r \in Slots} \cup {out}
AskRecords == {rec \in Records : rec.kind = "ask"}
Answered(rec) == rec.pc = "done" /\ rec.kind = "ask"

CallsOf(rec, name) == {i \in 1..Len(rec.calls) : rec.calls[i][1] = name}
OkCallsOf(rec, name) == {i \in CallsOf(rec, name) : rec.calls[i][3] = "ok"}
LastCall(rec) == rec.calls[Len(rec.calls)]
\* Admitted by the rate limiter and carrying a non-blank question.
Accepted(rec) == rec.kind = "ask" /\ rec.adm.ok /\ ~rec.blank
\* The thread of the request: the supplied one, or the one createThread returned.
RequestThread(rec) ==
  IF rec.given = "id" THEN rec.supplied
  ELSE IF OkCallsOf(rec, "createThread") = {} THEN 0
  ELSE rec.calls[CHOOSE i \in OkCallsOf(rec, "createThread") : TRUE][2]
\* The text of the most recent message of role assistant.
MostRecentAssistant(thread) ==
  LET idx == {i \in 1..Len(thread) : thread[i].role = "assistant"}
  IN IF idx = {} THEN <<"none">>
     ELSE thread[CHOOSE i \in idx : \A j \in idx : i <= j].text
IsRateLimited(resp) ==
  resp.code = 429 /\ resp.json /\ "error" \in DOMAIN resp.body

\* C1 as stated: every accepted /ask request that was answered created
\* exactly one Run, by exactly one createRun call.
C1_ExactlyOneRun ==
  Answered(out) /\ Accepted(out) =>
    Cardinality(OkCallsOf(out, "createRun")) = 1
      /\ Cardinality(CallsOf(out, "createRun")) = 1

\* C1 amended: an accepted /ask request calls createRun at most once,
\* however many status fetches it performs; it has created exactly one Run
\* once it is polling or has answered 200 or "Run failed", and none when
\* createThread, appendMessage or createRun raised.
C1_RunOnce ==
  \A rec \in AskRecords :
    /\ Cardinality(CallsOf(rec, "createRun")) <= 1
    /\ (rec.pc = "poll" \/ (rec.pc = "done" /\ rec.resp.json
                              /\ rec.resp.code \in {200, 500}))
         => Cardinality(OkCallsOf(rec, "createRun")) = 1
    /\ (rec.pc = "done" /\ rec.calls # << >>
          /\ LastCall(rec)[1] \in {"createThread", "appendMessage", "createRun"}
          /\ LastCall(rec)[3] = "raised")
         => OkCallsOf(rec, "createRun") = {}
C1_Witness ==
  Answered(out) /\ out.resp.code = 200 /\ out.polls = MaxPolls + 1

\* C2 as stated: a non-blank question whose Run ended completed is answered
\* 200 with the text of the most recent assistant message of the thread and
\* the thread id of the request.
C2_CompletedIs200 ==
  Answered(out) /\ ~out.blank /\ out.status = "completed" =>
    out.resp = Json(200, [answer |-> MostRecentAssistant(msgs[RequestThread(out)]),
                          thread_id |-> RequestThread(out)])

\* C2 amended: the same, when listMessages returned; when it raised, the
\* exception leaves the handler and the response is the server's 500.
C2_CompletedAnswer ==
  Answered(out) /\ ~out.blank /\ out.status = "completed" =>
    IF LastCall(out) = <<"listMessages", RequestThread(out), "ok">>
    THEN out.resp = Json(200,
           [answer |-> MostRecentAssistant(msgs[RequestThread(out)]),
            thread_id |-> RequestThread(out)])
    ELSE /\ LastCall(out) = <<"listMessages", RequestThread(out), "raised">>
         /\ out.resp.code = 500
C2_Witness ==
  Answered(out) /\ out.resp.code = 200 /\ out.given = "id"
    /\ Len(msgs[out.supplied]) = 4

\* C3 as stated: an /ask request with a blank question is answered 400
\* "No question provided." and makes no assistant-client call.
C3_BlankIs400 ==
  Answered(out) /\ out.blank =>
    /\ out.resp = Json(400, [error |-> <<"No question provided.">>])
    /\ out.calls = << >>

\* C3 amended: an /ask request with a blank question that the rate limiter
\* admitted is answered 400 "No question provided."; admitted or denied
\* (429), it never starts the orchestration and makes no assistant-client
\* call, whether or not a thread_id was supplied.
C3_AdmittedBlankIs400 ==
  \A rec \in AskRecords : rec.blank =>
    /\ rec.calls = << >>
    /\ rec.pc \in {"arrived", "json", "done"}
    /\ rec.pc = "done" =>
         IF rec.adm.ok
         THEN rec.resp = Json(400, [error |-> <<"No question provided.">>])
         ELSE IsRateLimited(rec.resp)
C3_Witness ==
  Answered(out) /\ out.blank /\ out.resp.code = 400 /\ out.given = "id"
    /\ out.question = << >> /\ nThreads >= out.supplied

\* C4: a request that supplies a thread id never calls createThread, makes
\* every assistant-client call on the supplied id, and echoes that id in
\* its 200 response.
C4_ReuseThread ==
  \A rec \in AskRecords : rec.given = "id" =>
    /\ \A i \in 1..Len(rec.calls) :
         rec.calls[i][1] # "createThread" /\ rec.calls[i][2] = rec.supplied
    /\ (rec.pc = "done" /\ rec.resp.code = 200)
         => rec.resp.body.thread_id = rec.supplied
C4_Witness ==
  Answered(out) /\ out.given = "id" /\ out.resp.code = 200
    /\ Len(out.calls) >= 4 /\ CallsOf(out, "getRun") # {}

\* C5: a Run that leaves polling with a status other than completed is
\* answered 500 {"error": "Run failed with status: <status>", "thread_id":
\* <the request's thread>}, after exactly one capture attempt, whether or
\* not the capture raised.
C5_RunFailed ==
  Answered(out) /\ out.status \in OtherStatuses \ {"completed"} =>
    /\ out.resp = Json(500, [error |-> <<"Run failed with status: ", out.status>>,
                             thread_id |-> RequestThread(out)])
    /\ out.captures = 1
C5_Witness ==
  Answered(out) /\ out.status = "requires_action" /\ out.raised
    /\ out.resp.code = 500 /\ out.resp.json

C7_DeniedThenAdmitted ==
  Answered(out) /\ out.adm.decided =>
    /\ out.adm.minuteBefore >= MinuteMax => IsRateLimited(out.resp)
    /\ out.adm.minuteFresh => out.adm.ok /\ out.resp.code # 429

\* C7 amended: once MinuteMax requests were admitted in the minute window
\* the next is answered 429 with an error body; the first request after the
\* window has passed is admitted provided fewer than HourMax requests were
\* admitted in the hour window.
C7_DeniedThenAdmittedHour ==
  Answered(out) /\ out.adm.decided =>
    /\ out.adm.minuteBefore >= MinuteMax => IsRateLimited(out.resp)
    /\ (out.adm.minuteFresh /\ out.adm.hourBefore < HourMax)
         => out.adm.ok /\ out.resp.code # 429
C7_Witness ==
  Answered(out) /\ out.adm.minuteFresh /\ out.adm.ok
    /\ out.adm.hourBefore = MinuteMax /\ out.resp.code = 400

C9_DeniedChangesNothing ==
  Answered(out) /\ out.adm.decided /\ ~out.adm.ok =>
    /\ out.calls = << >>
    /\ out.captures = 0
    /\ out.adm.stAfter = out.adm.stBefore

\* C10: while a request is in the wait-then-check cycle of polling, a
\* request that has arrived on another connection can be handled.
C10_OthersProceed ==
  \A r \in Slots, q \in Slots :
    (r # q /\ req[r].pc = "poll" /\ req[r].status \in NonTerminal
       /\ req[q].pc = "arrived")
      => ENABLED (LimitCheck(q) \/ HandleSync(q))

\* C11: every /ask request answered with a failure status has a JSON body
\* with an error field; one whose assistant-client call raised is answered
\* 500 with such a body.
C11_FailureIsJsonError ==
  Answered(out) /\ out.resp.code >= 400 =>
    out.resp.json /\ "error" \in DOMAIN out.resp.body

\* The request of slot r after the step: still in its slot, or answered.
After(r) == IF out'.pc = "done" /\ out'.slot = r THEN out' ELSE req'[r]
\* The handler of slot r has taken a step.
Stepped(r) == req'[r] # req[r]
Fetches(rec) == Cardinality(CallsOf(rec, "getRun"))

\* C12: the status is fetched again exactly while the last status seen is
\* queued or in_progress: a request whose last status is one of these does
\* nothing but fetch, one whose last status is another never fetches
\* again; so a run seen non-terminal at creation and at MaxPolls fetches ends
\* after MaxPolls + 1 fetches, and a run created with another status is
\* never fetched; the answer is that of the list made after the fetches.
C12_PollWhileRunning ==
  /\ [](\A rec \in AskRecords :
          /\ OkCallsOf(rec, "getRun") # {} => rec.pc \in {"poll", "done"}
          /\ Cardinality(OkCallsOf(rec, "getRun")) = rec.polls
          /\ \A i \in CallsOf(rec, "listMessages"), j \in CallsOf(rec, "getRun") :
               j < i
          /\ (rec.pc = "done" /\ rec.resp.code = 200) =>
               /\ rec.status = "completed"
               /\ rec.resp.body.answer = Answer(msgs[rec.thread_id]))
  /\ [][\A r \in Slots :
          (req[r].pc = "poll" /\ Stepped(r)) =>
            IF req[r].status \in NonTerminal
            THEN /\ Fetches(After(r)) = Fetches(req[r]) + 1
                 /\ Len(After(r).calls) = Len(req[r].calls) + 1
            ELSE Fetches(After(r)) = Fetches(req[r])]_vars
C12_Witness ==
  Answered(out) /\ out.resp.code = 200 /\ Fetches(out) = 3
    /\ Cardinality(OkCallsOf(out, "getRun")) = 3
    /\ LastCall(out)[1] = "listMessages"

\* C13: a capture is attempted only by a request that ends with "Run
\* failed"; a request answered 200, 400 or 429 has attempted none.
C13_CaptureOnlyOnFailed ==
  \A rec \in Records :
    /\ rec.captures > 0 =>
         /\ rec.pc = "done" /\ rec.kind = "ask"
         /\ rec.status \in OtherStatuses \ {"completed"}
         /\ rec.resp = FailedResponse(rec.status, rec.thread_id, rec.raised)
    /\ (rec.pc = "done" /\ rec.resp.code \in {200, 400, 429}) => rec.captures = 0
C13_Witness ==
  Answered(out) /\ out.captures = 1 /\ ~out.raised /\ out.status = "cancelled"
    /\ out.polls = 1

\* The names of the calls of a request, in order.
CallNames(rec) == [i \in 1..Len(rec.calls) |-> rec.calls[i][1]]
\* The place of a call in the order of ask.
Rank(name) ==
  CASE name = "createThread" -> 1
    [] name = "appendMessage" -> 2
    [] name = "createRun" -> 3
    [] name = "getRun" -> 4
    [] name = "listMessages" -> 5

\* C14: the calls of a request come in the order createThread (exactly
\* when no thread id was supplied), appendMessage, createRun, getRun any
\* number of times, listMessages (only after status completed); only getRun
\* is called more than once, and a call that raised is the last.
C14_CallOrder ==
  \A rec \in AskRecords :
    LET n == Len(rec.calls)
        names == CallNames(rec)
    IN /\ \A i \in 1..n : \A j \in 1..n :
            i < j => /\ Rank(names[i]) <= Rank(names[j])
                     /\ Rank(names[i]) = Rank(names[j]) => names[i] = "getRun"
                     /\ rec.calls[i][3] = "ok"
       /\ n > 0 => names[1] = IF rec.given = "id"
                              THEN "appendMessage" ELSE "createThread"
       /\ \A i \in 1..(n - 1) :
            Rank(names[i + 1]) <= Rank(names[i]) + 1
              \/ (names[i] = "createRun" /\ names[i + 1] = "listMessages")
       /\ CallsOf(rec, "createThread") # {} <=>
            (n > 0 /\ rec.given # "id")
       /\ CallsOf(rec, "listMessages") # {} => rec.status = "completed"
C14_Witness ==
  Answered(out) /\ out.given = "omitted" /\ Len(out.calls) = 5
    /\ LastCall(out) = <<"getRun", out.thread_id, "raised">>

\* C15: a request that has begun ask is answered 200, 400 or 500, given
\* that the run leaves queued / in_progress; while the last status is
\* queued or in_progress the handler can neither answer nor give up: its
\* only step is the next fetch, whatever the number of fetches made.
C15_RunsToOutcome ==
  /\ \A r \in Slots :
       (req[r].pc = "json") ~>
         (Answered(out) /\ out.slot = r /\ out.resp.code \in {200, 400, 500})
  /\ [](\A r \in Slots :
          (req[r].pc = "poll" /\ req[r].status \in NonTerminal) =>
            /\ ~ENABLED (\E fail \in BOOLEAN : Completed(r, fail))
            /\ ~ENABLED (\E raised \in BOOLEAN : Failed(r, raised))
            /\ ENABLED (\E fail \in BOOLEAN, s \in AllStatuses : Poll(r, fail, s)))
C15_Witness ==
  Answered(out) /\ out.polls = MaxPolls + 1 /\ out.resp.code = 500
    /\ out.resp.json /\ out.status = "expired"

\* The thread a request that asked for a new one would see had it run
\* alone: its own question, and the reply once the run is completed.
AloneThread(rec) ==
  LET u == IF OkCallsOf(rec, "appendMessage") # {}
           THEN <<UserMessage(rec.question)>> ELSE << >>
  IN IF rec.status = "completed" THEN <<AssistantMessage(u)>> \o u ELSE u
\* The response its own inputs and the service's answers to its own calls
\* determine.
AloneResponse(rec) ==
  IF ~rec.adm.ok THEN RateLimitResponse
  ELSE IF rec.blank THEN Json(400, [error |-> <<"No question provided.">>])
  ELSE IF LastCall(rec)[3] = "raised" THEN ServerError
  ELSE IF rec.status = "completed"
       THEN Json(200, [answer |-> Answer(AloneThread(rec)),
                       thread_id |-> RequestThread(rec)])
  ELSE FailedResponse(rec.status, RequestThread(rec), rec.raised)

\* C16: requests of different clients on different threads do not affect
\* each other: a request is admitted exactly when the windows of its own
\* key have quota and its check touches the counters of no other key; its
\* calls go to its own thread, which holds its own messages only; and its
\* response is the one it would get alone.
C16_Independent ==
  /\ [](\A rec \in AskRecords :
          /\ rec.adm.decided =>
               (rec.adm.ok <=> /\ rec.adm.minuteBefore < MinuteMax
                               /\ rec.adm.hourBefore < HourMax)
          /\ \A i \in 1..Len(rec.calls) :
               rec.calls[i][2] = IF rec.calls[i] = <<"createThread", 0, "raised">>
                                 THEN 0 ELSE RequestThread(rec)
          /\ (rec.given # "id" /\ OkCallsOf(rec, "createThread") # {}) =>
               /\ msgs[RequestThread(rec)] = AloneThread(rec)
               /\ \A other \in AskRecords :
                    other # rec => RequestThread(other) # RequestThread(rec)
               /\ rec.pc = "done" => rec.resp = AloneResponse(rec))
  /\ [][\A r \in Slots :
          (req[r].pc = "arrived" /\ Stepped(r)) =>
            \A k \in Keys \ {req[r].key} :
              storage'[k] = storage[k] /\ expires'[k] = expires[k]]_vars
C16_Witness ==
  /\ Answered(out) /\ out.key = "ipB" /\ out.resp.code = 200
  /\ out.given # "id"
  /\ storage["ipA"]["minute"] > MinuteMax
  /\ req[1].pc = "arrived" /\ req[1].kind = "ask"

\* A health or ping request was answered by this step.
SyncAnswered == out'.pc = "done" /\ out'.kind \in {"health", "ping"}

\* C17: health is answered 200 {"status": "ok"} and ping 200 {"message":
\* "pong"} in every state in which they are answered, also when the quota
\* of the client is used up; answering them changes no counter of the
\* limiter and makes no assistant-client call and no capture.
C17_HealthPing ==
  /\ [](\A rec \in Records : rec.kind \in {"health", "ping"} =>
          /\ rec.calls = << >> /\ rec.captures = 0 /\ ~rec.adm.decided
          /\ rec.pc \in {"arrived", "done"}
          /\ rec.pc = "done" =>
               rec.resp = Json(200, IF rec.kind = "health"
                                    THEN [status |-> <<"ok">>]
                                    ELSE [message |-> <<"pong">>]))
  /\ [][SyncAnswered => UNCHANGED <<storage, expires, winAdmits, slide,
                                    nThreads, msgs, asked>>]_vars
C17_Witness ==
  /\ out.pc = "done" /\ out.kind = "ping" /\ out.resp.code = 200
  /\ storage["ipA"]["minute"] > MinuteMax
  /\ \E r \in Slots : req[r].pc = "arrived" /\ req[r].kind = "ask"

\* C18: the limiter decides before the question is looked at: a request
\* it admits has been counted in both windows whatever its answer, one
\* with a blank question (answered 400) included; and once MinuteMax
\* requests, blank ones too, were admitted in the minute window, the next
\* request, blank or not, is answered 429 and neither 400 nor 200.
C18_AdmissionFirst ==
  Answered(out) /\ out.adm.decided =>
    /\ out.adm.ok =>
         /\ out.adm.stAfter[1] = out.adm.stBefore[1] + 1
         /\ out.adm.stAfter[2] = out.adm.stBefore[2] + 1
         /\ out.blank =>
              out.resp = Json(400, [error |-> <<"No question provided.">>])
    /\ out.adm.minuteBefore >= MinuteMax =>
         /\ out.resp = RateLimitResponse
         /\ out.question = << >> /\ out.calls = << >>
C18_Witness ==
  /\ Answered(out) /\ ~out.blank /\ out.resp.code = 429
  /\ out.adm.minuteBefore = MinuteMax /\ out.adm.hourBefore = MinuteMax
  /\ out.adm.failed = "minute"

\* C19: a request whose thread_id is null or the empty string is handled as
\* one without thread_id: its first call is createThread, made once, its
\* later calls go to the thread createThread returned, and its 200 and "Run
\* failed" responses carry that thread's id.
C19_FalsyThreadId ==
  \A rec \in AskRecords :
    (rec.given \in {"null", "empty"} /\ rec.pc \in {"append", "run", "poll", "done"}
       /\ ~rec.blank /\ rec.adm.ok) =>
      /\ Cardinality(CallsOf(rec, "createThread")) = 1
      /\ rec.calls[1][1] = "createThread"
      /\ \A i \in 2..Len(rec.calls) : rec.calls[i][2] = rec.calls[1][2]
      /\ rec.calls[1][3] = "ok" => rec.calls[1][2] \in 1..nThreads
      /\ (rec.pc = "done" /\ rec.resp.json) =>
           /\ rec.resp.body.thread_id = rec.calls[1][2]
           /\ rec.resp.body.thread_id # rec.supplied
           /\ rec.resp = AloneResponse([rec EXCEPT !.given = "omitted"])
C19_Witness ==
  /\ Answered(out) /\ out.given = "empty" /\ out.resp.code = 200
  /\ out.resp.body.thread_id = 2 /\ nThreads = 2

\* C20: a request one of whose assistant-client calls raised has attempted
\* no capture and is answered by the server's 500; a capture is attempted
\* only by a request all of whose calls returned and whose polling ended
\* with a status other than completed.
C20_NoCaptureOnRaise ==
  \A rec \in AskRecords :
    /\ (rec.calls # << >> /\ LastCall(rec)[3] = "raised") =>
         rec.captures = 0 /\ rec.pc = "done" /\ rec.resp = ServerError
    /\ rec.captures > 0 =>
         /\ \A i \in 1..Len(rec.calls) : rec.calls[i][3] = "ok"
         /\ LastCall(rec)[1] \in {"createRun", "getRun"}
         /\ rec.status \in OtherStatuses \ {"completed"}
         /\ rec.captures = 1
C20_Witness ==
  /\ Answered(out) /\ out.captures = 0 /\ out.polls = 1
  /\ LastCall(out) = <<"getRun", out.thread_id, "raised">>
  /\ out.given = "id"

====
